---- MODULE Spec2Model ----
(***************************************************************************)
(* A model of DLCitations: the abbreviation table (abbrev.py), the         *)
(* taxonomy loader CitationsMap.from_json, the category map CitationsMap   *)
(* (_check_key, add, get, toc) and the section renderer fill_tex_body      *)
(* (main.py).                                                              *)
(*                                                                         *)
(* A Python str is modelled as a sequence of one-character strings, so     *)
(* that str.startswith, str.split("::"), "::".join and str.count("::")     *)
(* are computed character by character, as Python computes them.           *)
(***************************************************************************)
EXTENDS Integers, Sequences, FiniteSets, TLC

VARIABLES
    cats_json,   \* the taxonomy description handed to CitationsMap.from_json
    d,           \* CitationsMap.__d: an insertion-ordered dict, key -> OrderedSet
    before,      \* __d as the last call found it
    n,           \* number of entries handed to add so far (the next entry's id)
    call,        \* the last call made on the map
    ret          \* what that call returned or raised

vars == <<cats_json, d, before, n, call, ret>>

----------------------------------------------------------------------------
(* Bounds of the model.                                                    *)

\* nodes in a taxonomy description, on the query path
MaxNodes == 2
\* nodes in a taxonomy description, on the render path
MaxRenderNodes == 3
\* entries handed to add in one run
MaxEntries == 2

----------------------------------------------------------------------------
(* str operations                                                          *)

DELIM == <<":", ":">>

\* s.startswith(p)
startswith(s, p) == Len(p) <= Len(s) /\ SubSeq(s, 1, Len(p)) = p

\* s.find("::", i), 1-based; 0 when there is none
RECURSIVE find(_, _)
find(s, i) ==
    IF i + 1 > Len(s) THEN 0
    ELSE IF s[i] = ":" /\ s[i + 1] = ":" THEN i
    ELSE find(s, i + 1)

\* s.split("::")
RECURSIVE split(_)
split(s) ==
    LET i == find(s, 1)
    IN  IF i = 0 THEN <<s>>
        ELSE <<SubSeq(s, 1, i - 1)>> \o split(SubSeq(s, i + 2, Len(s)))

\* "::".join(segs)
RECURSIVE join(_)
join(segs) ==
    IF Len(segs) = 0 THEN <<>>
    ELSE IF Len(segs) = 1 THEN segs[1]
    ELSE segs[1] \o DELIM \o join(Tail(segs))

\* s.count("::"): the non-overlapping occurrences, scanned from the left
count(s) == Len(split(s)) - 1

----------------------------------------------------------------------------
(* abbrev.py: ABBREV_MAP, as <<short code, canonical name>> pairs          *)

ABBREV_MAP ==
    <<
       <<<<"a","u","g">>,
         <<"a","u","g","m","e","n","t","a","t","i","o","n","s">>>>,
       <<<<"r","e","g">>,
         <<"r","e","g","u","l","a","r","i","z","a","t","i","o","n">>>>,
       <<<<"c","o","n">>,
         <<"c","o","n","s","i","s","t","e","n","c","y">>>>,
       <<<<"a","r","c","h">>,
         <<"a","r","c","h","i","t","e","c","t","u","r","e","s">>>>,
       <<<<"a","c","t">>,
         <<"a","c","t","i","v","a","t","i","o","n","s">>>>,
       <<<<"n","o","r","m">>,
         <<"n","o","r","m","a","l","i","z","a","t","i","o","n","s">>>>,
       <<<<"t","r">>,
         <<"t","r","a","n","s","f","o","r","m","e","r","s">>>>,
       <<<<"c","l">>,
         <<"c","o","n","t","r","a","s","t","i","v","e"," ","l","e","a","r","n","i","n","g">>>>,
       <<<<"k","d">>,
         <<"k","n","o","w","l","e","d","g","e","-","d","i","s","t","i","l","l","a","t","i","o","n">>>>,
       <<<<"w","s","l">>,
         <<"w","e","a","k","l","y","-","s","u","p","e","r","v","i","s","e","d"," ","l","e","a","r","n","i","n","g">>>>,
       <<<<"s","s","l">>,
         <<"s","e","m","i","-","s","u","p","e","r","v","i","s","e","d"," ","l","e","a","r","n","i","n","g">>>>,
       <<<<"p","s","e","u","d","o">>,
         <<"p","s","e","u","d","o","-","l","a","b","e","l","i","n","g">>>>,
       <<<<"u","s","l">>,
         <<"u","n","s","u","p","e","r","v","i","s","e","d"," ","l","e","a","r","n","i","n","g">>>>,
       <<<<"t","l">>,
         <<"t","r","a","n","s","f","e","r"," ","l","e","a","r","n","i","n","g">>>>,
       <<<<"x","s","l">>,
         <<"x","-","s","h","o","t"," ","l","e","a","r","n","i","n","g">>>>,
       <<<<"f","s","l">>,
         <<"f","e","w","-","s","h","o","t"," ","l","e","a","r","n","i","n","g">>>>,
       <<<<"o","s","l">>,
         <<"o","n","e","-","s","h","o","t"," ","l","e","a","r","n","i","n","g">>>>,
       <<<<"z","s","l">>,
         <<"z","e","r","o","-","s","h","o","t"," ","l","e","a","r","n","i","n","g">>>>,
       <<<<"f","t">>,
         <<"f","i","n","e","-","t","u","n","i","n","g">>>>,
       <<<<"o","d">>,
         <<"d","e","t","e","c","t","i","o","n">>>>,
       <<<<"d","e","t">>,
         <<"d","e","t","e","c","t","o","r","s">>>>,
       <<<<"s","o","d">>,
         <<"s","a","l","i","e","n","t"," ","o","b","j","e","c","t"," ","d","e","t","e","c","t","i","o","n">>>>,
       <<<<"s","e","g">>,
         <<"s","e","g","m","e","n","t","a","t","i","o","n">>>>,
       <<<<"n","a","s">>,
         <<"n","e","u","r","a","l"," ","a","r","c","h","i","t","e","c","t","u","r","e"," ","s","e","a","r","c","h">>>>,
       <<<<"c","o","m","p">>,
         <<"c","o","m","p","r","e","s","s","i","o","n">>>>,
       <<<<"m","o","b">>,
         <<"m","o","b","i","l","e"," ","v","i","s","i","o","n">>>>,
       <<<<"g","a","n">>,
         <<"g","e","n","e","r","a","t","i","v","e"," ","a","d","v","e","r","s","a","r","i","a","l"," ","n","e","t","w","o","r","k","s">>>>,
       <<<<"a","d","v">>,
         <<"a","d","v","e","r","s","a","r","i","a","l">>>>,
       <<<<"a","e">>,
         <<"a","u","t","o","e","n","c","o","d","e","r","s">>>>,
       <<<<"v","b">>,
         <<"v","a","r","i","a","t","i","o","n","a","l"," ","b","a","y","e","s">>>>,
       <<<<"o","p","t">>,
         <<"o","p","t","i","m","i","z","a","t","i","o","n">>>>,
       <<<<"h","y","p">>,
         <<"h","y","p","e","r","p","a","r","a","m","e","t","e","r">>>>,
       <<<<"d","a">>,
         <<"d","o","m","a","i","n"," ","a","d","a","p","t","a","t","i","o","n">>>>,
       <<<<"r","e","c">>,
         <<"r","e","c","o","g","n","i","t","i","o","n">>>>,
       <<<<"n","e","r">>,
         <<"p","e","r","c","e","p","t","i","o","n"," ","a","n","d"," ","t","h","e"," ","v","i","s","u","a","l"," ","c","o","r","t","e","x">>>>,
       <<<<"d","e">>,
         <<"d","i","f","f","e","r","e","n","t","i","a","l"," ","e","v","o","l","u","t","i","o","n">>>>,
       <<<<"l","l","v","p">>,
         <<"l","o","w","-","l","e","v","e","l"," ","v","i","s","u","a","l"," ","p","r","o","c","e","s","s","i","n","g">>>>,
       <<<<"s","t","a","t">>,
         <<"s","t","a","t","i","s","t","i","c","s">>>>
    >>

\* ABBREV_MAP.get(_k, _k)
ABBREV_MAP_get(_k) ==
    IF \E i \in 1..Len(ABBREV_MAP) : ABBREV_MAP[i][1] = _k
    THEN ABBREV_MAP[CHOOSE i \in 1..Len(ABBREV_MAP) : ABBREV_MAP[i][1] = _k][2]
    ELSE _k

\* "::".join([ABBREV_MAP.get(_k, _k) for _k in k.split("::")])
canonicalize(k) ==
    LET segs == split(k)
    IN  join([i \in 1..Len(segs) |-> ABBREV_MAP_get(segs[i])])

----------------------------------------------------------------------------
(* The taxonomy description (the parsed JSON).  A mapping is the sequence  *)
(* of its entries in iteration order; an entry is [k, isList, v]: k the    *)
(* segment name, isList whether the value is a list (a leaf), v the nested *)
(* mapping otherwise.                                                      *)

Leaf(name) == [k |-> name, isList |-> TRUE, v |-> <<>>]
Node(name, children) == [k |-> name, isList |-> FALSE, v |-> children]

\* CitationsMap.from_json: inner(d, prefix_cat).  root stands for
\* prefix_cat is None; nested_cats is the list inner appends to.
RECURSIVE inner(_, _, _, _)
inner(m, prefix_cat, root, nested_cats) ==
    LET prefix == IF root THEN <<>> ELSE prefix_cat
        start  == IF root THEN nested_cats
                  ELSE Append(nested_cats, join(prefix_cat))
        RECURSIVE items(_, _)
        items(i, acc) ==
            IF i > Len(m) THEN acc
            ELSE IF m[i].isList
                 THEN items(i + 1, Append(acc, join(Append(prefix, m[i].k))))
                 ELSE items(i + 1, inner(m[i].v, Append(prefix, m[i].k), FALSE, acc))
    IN  items(1, start)

----------------------------------------------------------------------------
(* dict and OrderedSet                                                     *)

\* list(dct): the keys in insertion order
dict_keys(dct) == [i \in 1..Len(dct) |-> dct[i].k]

\* k in dct
dict_contains(dct, k) == \E i \in 1..Len(dct) : dct[i].k = k

\* dct[k], for a key that is present
dict_getitem(dct, k) == dct[CHOOSE i \in 1..Len(dct) : dct[i].k = k].v

\* dct[k] = v: a present key keeps its place
dict_setitem(dct, k, v) ==
    IF dict_contains(dct, k)
    THEN [i \in 1..Len(dct) |-> IF dct[i].k = k THEN [k |-> k, v |-> v] ELSE dct[i]]
    ELSE Append(dct, [k |-> k, v |-> v])

\* OrderedSet.add: an element already present keeps its place
OrderedSet_add(s, x) ==
    IF \E i \in 1..Len(s) : s[i] = x THEN s ELSE Append(s, x)

----------------------------------------------------------------------------
(* CitationsMap                                                            *)

\* CitationsMap.__init__
RECURSIVE __init__(_, _)
__init__(allowed_keys, dct) ==
    IF Len(allowed_keys) = 0 THEN dct
    ELSE __init__(Tail(allowed_keys), dict_setitem(dct, Head(allowed_keys), <<>>))

\* CitationsMap.from_json: the map built from a description
from_json(description) == __init__(inner(description, <<>>, TRUE, <<>>), <<>>)

\* CitationsMap.toc
toc(dct) == dict_keys(dct)

\* What a call returns or raises.  exc is "none" for a return; a KeyError
\* carries the key of its message (errkey) and, when the message is
\* "input key '..' not one of: [..]", listed = TRUE and the keys it lists.
Returned ==
    [exc |-> "none", errkey |-> <<>>, listed |-> FALSE, errkeys |-> <<>>,
     key |-> <<>>, items |-> <<>>, keys |-> <<>>, lines |-> <<>>, headings |-> <<>>]

Raised(e, k, l, ks) ==
    [Returned EXCEPT !.exc = e, !.errkey = k, !.listed = l, !.errkeys = ks]

\* CitationsMap._check_key
_check_key(dct, raw) ==
    LET k == canonicalize(raw)
    IN  IF dict_contains(dct, k) THEN [Returned EXCEPT !.key = k]
        ELSE IF ~ \E i \in 1..Len(dct) : startswith(dct[i].k, k)
             THEN Raised("KeyError", k, TRUE, dict_keys(dct))
             ELSE [Returned EXCEPT !.key = k]

\* __add as it would be if a key that only matches as a prefix were filed
\* under the first declared key that starts with it
__add_prefix_tolerant(dct, __k, cited_item) ==
    LET c == _check_key(dct, __k)
        first == CHOOSE i \in 1..Len(dct) :
                    /\ startswith(dct[i].k, c.key)
                    /\ \A j \in 1..(i - 1) : ~ startswith(dct[j].k, c.key)
        k == IF dict_contains(dct, c.key) THEN c.key ELSE dct[first].k
    IN  IF c.exc # "none" THEN [d |-> dct, r |-> c]
        ELSE [d |-> dict_setitem(dct, k, OrderedSet_add(dict_getitem(dct, k), cited_item)),
              r |-> Returned]

\* __add as it would be if __d were a defaultdict(OrderedSet)
__add_defaultdict(dct, __k, cited_item) ==
    LET c == _check_key(dct, __k)
        bucket == IF dict_contains(dct, c.key) THEN dict_getitem(dct, c.key) ELSE <<>>
    IN  IF c.exc # "none" THEN [d |-> dct, r |-> c]
        ELSE [d |-> dict_setitem(dct, c.key, OrderedSet_add(bucket, cited_item)),
              r |-> Returned]

\* CitationsMap.__add: [d, r], the map after the call and what it returned.
\* self.__d[__k] of a key that is not in the dict raises KeyError(__k).
__add(dct, __k, cited_item) ==
    LET c == _check_key(dct, __k)
    IN  IF c.exc # "none" THEN [d |-> dct, r |-> c]
        ELSE IF ~ dict_contains(dct, c.key)
             THEN [d |-> dct, r |-> Raised("KeyError", c.key, FALSE, <<>>)]
             ELSE [d |-> dict_setitem(dct, c.key,
                                      OrderedSet_add(dict_getitem(dct, c.key), cited_item)),
                   r |-> Returned]

\* CitationsMap.add: the loop over cited_item.location, left at the first raise
RECURSIVE add_from(_, _, _)
add_from(dct, cited_item, i) ==
    IF i > Len(cited_item.location) THEN [d |-> dct, r |-> Returned]
    ELSE LET a == __add(dct, cited_item.location[i], cited_item)
         IN  IF a.r.exc # "none" THEN a
             ELSE add_from(a.d, cited_item, i + 1)

add(dct, cited_item) == add_from(dct, cited_item, 1)

\* CitationsMap.get, mlvl=True: the loop over filter(startswith(__k), toc())
RECURSIVE get_mlvl(_, _, _, _)
get_mlvl(dct, __k, i, v) ==
    IF i > Len(dct) THEN v
    ELSE IF startswith(dct[i].k, __k)
         THEN LET RECURSIVE each(_, _)
                  each(j, acc) ==
                      IF j > Len(dct[i].v) THEN acc
                      ELSE each(j + 1, OrderedSet_add(acc, dct[i].v[j]))
              IN  get_mlvl(dct, __k, i + 1, each(1, v))
         ELSE get_mlvl(dct, __k, i + 1, v)

\* CitationsMap.get
get(dct, raw, mlvl, skip_check) ==
    LET c == IF skip_check THEN [Returned EXCEPT !.key = raw] ELSE _check_key(dct, raw)
    IN  IF c.exc # "none" THEN c
        ELSE IF ~ mlvl
             THEN IF dict_contains(dct, c.key)
                  THEN [Returned EXCEPT !.items = dict_getitem(dct, c.key)]
                  ELSE Raised("KeyError", c.key, FALSE, <<>>)
             ELSE [Returned EXCEPT !.items = get_mlvl(dct, c.key, 1, <<>>)]

----------------------------------------------------------------------------
(* fill_tex_body                                                           *)

section_per_depth ==
    <<"section", "subsection", "subsubsection", "paragraph", "subparagraph">>

\* A dict value of the section tree: None, or a dict (its entries in order)
None == [isNone |-> TRUE, dct |-> <<>>]

\* fill_tex_body.make_sections, over iter(cite_map) = keys
RECURSIVE make_sections(_, _)
make_sections(keys, key) ==
    LET sub == SelectSeq(keys, LAMBDA k : startswith(k, key) /\ k # key)
        sub_keys == [i \in 1..Len(sub) |->
                        [k |-> sub[i], v |-> make_sections(keys, sub[i])]]
    IN  IF Len(sub_keys) = 0 THEN None
        ELSE [isNone |-> FALSE, dct |-> sub_keys]

\* mlvl_keys: make_sections(key) for every key with no "::"
mlvl_keys(keys) ==
    LET top == SelectSeq(keys, LAMBDA k : count(k) = 0)
    IN  [i \in 1..Len(top) |-> [k |-> top[i], v |-> make_sections(keys, top[i])]]

NoItem == [id |-> 0, title |-> "", location |-> <<>>]

\* One line of tex_body.  Two lines are equal as records exactly when the
\* strings are equal: kind and tab are the command and the leading tabs,
\* sec and name the heading command and its argument, item the cited item
\* of an \item line.
Line(kind, tab) == [kind |-> kind, tab |-> tab, sec |-> "", name |-> <<>>, item |-> NoItem]

\* the for loop over cited_items
RECURSIVE item_lines(_, _, _, _)
item_lines(tex_body, cited_items, tab, i) ==
    IF i > Len(cited_items) THEN tex_body
    ELSE item_lines(Append(tex_body, [Line("item", tab + 1) EXCEPT !.item = cited_items[i]]),
                    cited_items, tab, i + 1)

\* F(e), with e evaluated once however often F uses its argument
Once(F(_), e) == CHOOSE r \in {F(x) : x \in {e}} : TRUE

\* write_tex, the body of the loop after the recursive call: s3 is the state
\* the call left, header the heading line written for k before it
write_list(dct, k, header, s3) ==
    LET tab == count(k)
        cited_items == get(dct, k, FALSE, TRUE).items
        begin_enum == Line("begin", tab)
        b4 == item_lines(Append(s3.tex_body, begin_enum), cited_items, tab, 1)
        b5 == IF b4[Len(b4)] = begin_enum /\ b4[Len(b4) - 1] = header
              THEN Append(b4, Line("placeholder", tab + 1))
              ELSE b4
    IN  [s3 EXCEPT !.tex_body = Append(b5, Line("end", tab)),
                   !.used_keys = @ \cup {k}]

\* fill_tex_body.write_tex(m, depth), from the i-th entry of m on.  The
\* state is [tex_body, used_keys, exc] and headings, which records beside
\* tex_body the key each heading line was written for (the line itself
\* only holds the key's last segment).
RECURSIVE write_tex(_, _, _, _, _)
write_tex(dct, m, i, depth, state) ==
    Once(LAMBDA st :
        IF i > Len(m) \/ st.exc # "none" THEN st
        ELSE LET k == m[i].k
                 v == m[i].v
             IN  IF k \in st.used_keys THEN write_tex(dct, m, i + 1, depth, st)
                 ELSE IF depth + 1 > Len(section_per_depth)
                      THEN [st EXCEPT !.exc = "IndexError"]
                 ELSE
                 LET tab == count(k)
                     s1 == IF depth = 0
                           THEN [st EXCEPT !.tex_body = Append(@, Line("addtocontents", tab))]
                           ELSE st
                     header == [Line("header", tab) EXCEPT
                                   !.sec = section_per_depth[depth + 1],
                                   !.name = split(k)[Len(split(k))]]
                     s2 == [s1 EXCEPT !.tex_body = Append(@, header),
                                      !.headings = Append(@, [key |-> k, sec |-> header.sec])]
                 IN  Once(LAMBDA s3 :
                              IF s3.exc # "none" THEN s3
                              ELSE write_tex(dct, m, i + 1, depth,
                                             write_list(dct, k, header, s3)),
                          IF ~ v.isNone THEN write_tex(dct, v.dct, 1, depth + 1, s2)
                          ELSE s2),
        state)

\* fill_tex_body
fill_tex_body(dct) ==
    LET st == write_tex(dct, mlvl_keys(toc(dct)), 1, 0,
                        [tex_body |-> <<>>, used_keys |-> {}, exc |-> "none",
                         headings |-> <<>>])
    IN  IF st.exc # "none" THEN Raised(st.exc, <<>>, FALSE, <<>>)
        ELSE [Returned EXCEPT !.lines = st.tex_body, !.headings = st.headings]

----------------------------------------------------------------------------
(* Inputs                                                                  *)

\* 'a' , 'ab', 'b': 'a' is a character prefix of 'ab' and not of 'b'
s_a  == <<"a">>
s_ab == <<"a", "b">>
s_b  == <<"b">>
s_aug  == <<"a", "u", "g">>
s_crop == <<"c", "r", "o", "p">>
s_flip == <<"f", "l", "i", "p">>
s_xyz  == <<"x", "y", "z">>
s_augmentations == ABBREV_MAP_get(s_aug)

\* segment names of the generated descriptions
Segs == {s_a, s_ab}
RenderSegs == {s_a, s_ab, s_b}

\* the top-level names of a mapping
TopNames(m) == {m[i].k : i \in 1..Len(m)}

\* every mapping of exactly size nodes with names in segs (a JSON object
\* has no repeated name)
RECURSIVE MapsOfSize(_, _)
MapsOfSize(segs, size) ==
    IF size = 0 THEN {<<>>}
    ELSE UNION {
            {<<f>> \o r :
                f \in (IF c[2] = 0 THEN {Leaf(c[1])} ELSE {})
                      \cup {Node(c[1], sub) : sub \in MapsOfSize(segs, c[2])},
                r \in {r \in MapsOfSize(segs, size - 1 - c[2]) : c[1] \notin TopNames(r)}}
            : c \in segs \X (0..(size - 1)) }

\* {"aug": {"crop": [], "flip": []}}
RoundTrip == <<Node(s_aug, <<Leaf(s_crop), Leaf(s_flip)>>)>>
\* {"augmentations": {"crop": [], "flip": []}}
RoundTripCanonical == <<Node(s_augmentations, <<Leaf(s_crop), Leaf(s_flip)>>)>>

Taxonomies ==
    UNION {MapsOfSize(Segs, size) : size \in 1..MaxNodes}
        \cup {RoundTrip, RoundTripCanonical}

RenderTaxonomies ==
    UNION {MapsOfSize(RenderSegs, size) : size \in 1..MaxRenderNodes}

\* raw keys of queries and raw paths of entries
RawKeys ==
    {s_a, s_ab, s_aug, join(<<s_aug, s_crop>>), join(<<s_aug, s_flip>>), s_xyz}

\* the keywords of an entry, as the tuple of its raw paths
Locations ==
    {<<s_a>>, <<s_ab>>, <<join(<<s_a, s_ab>>)>>, <<join(<<s_aug, s_crop>>)>>,
     <<s_a, s_ab>>, <<s_ab, s_xyz>>}

\* the keywords of an entry on the render path
RenderLocations == {<<s_a>>, <<s_ab>>, <<s_b>>, <<join(<<s_a, s_b>>)>>, <<s_a, s_ab>>}

\* the n-th entry of the bibliography: CitedItem(id, title, location)
CitedItems(id, locations) ==
    {[id |-> id, title |-> "T", location |-> l] : l \in locations}

----------------------------------------------------------------------------
(* The state machine                                                       *)

Call(op) == [op |-> op, key |-> <<>>, mlvl |-> FALSE, item |-> NoItem]

Init ==
    /\ cats_json \in Taxonomies
    /\ d = from_json(cats_json)
    /\ before = d
    /\ n = 0
    /\ call = Call("new")
    /\ ret = Returned

\* cite_map.add(citation), for the next entry of the bibliography
AddEntry(locations) ==
    /\ n < MaxEntries
    /\ \E cited_item \in CitedItems(n + 1, locations) :
          LET a == add(d, cited_item)
          IN  /\ d' = a.d
              /\ ret' = a.r
              /\ call' = [Call("add") EXCEPT !.item = cited_item]
    /\ before' = d
    /\ n' = n + 1
    /\ UNCHANGED cats_json

Add == AddEntry(Locations)

\* cite_map.get(k, mlvl)
Get ==
    /\ \E k \in RawKeys, mlvl \in BOOLEAN :
          /\ ret' = get(d, k, mlvl, FALSE)
          /\ call' = [Call("get") EXCEPT !.key = k, !.mlvl = mlvl]
    /\ before' = d
    /\ UNCHANGED <<cats_json, d, n>>

\* cite_map._check_key(k)
CheckKey ==
    /\ \E k \in RawKeys :
          /\ ret' = _check_key(d, k)
          /\ call' = [Call("_check_key") EXCEPT !.key = k]
    /\ before' = d
    /\ UNCHANGED <<cats_json, d, n>>

\* cite_map.toc()
Toc ==
    /\ ret' = [Returned EXCEPT !.keys = toc(d)]
    /\ call' = Call("toc")
    /\ before' = d
    /\ UNCHANGED <<cats_json, d, n>>

\* main with --key: the entries are added and the map is queried
Next == Add \/ Get \/ CheckKey \/ Toc

Spec == Init /\ [][Next]_vars

\* main without --key: the entries are added and the document is rendered
InitRender ==
    /\ cats_json \in RenderTaxonomies
    /\ d = from_json(cats_json)
    /\ before = d
    /\ n = 0
    /\ call = Call("new")
    /\ ret = Returned

AddRender == AddEntry(RenderLocations)

\* fill_tex_body(cite_map)
FillTexBody ==
    /\ ret' = fill_tex_body(d)
    /\ call' = Call("fill_tex_body")
    /\ before' = d
    /\ UNCHANGED <<cats_json, d, n>>

NextRender == AddRender \/ FillTexBody

SpecRender == InitRender /\ [][NextRender]_vars

----------------------------------------------------------------------------
(* Properties                                                              *)

Range(s) == {s[i] : i \in 1..Len(s)}

DeclaredKeys == Range(toc(d))

\* the canonical forms of the paths of an item's location
Targets(item) == {canonicalize(item.location[i]) : i \in 1..Len(item.location)}

Without(s, x) == SelectSeq(s, LAMBDA y : y # x)

\* the ids of the items stored in some bucket
StoredIds(dct) == UNION {{x.id : x \in Range(dct[i].v)} : i \in 1..Len(dct)}

\* D is K or a descendant of K: D starts with K and K ends at the end of D
\* or right before a "::" of D
IsSelfOrDescendant(D, K) ==
    /\ startswith(D, K)
    /\ \/ Len(D) = Len(K)
       \/ /\ Len(D) >= Len(K) + 2
          /\ SubSeq(D, Len(K) + 1, Len(K) + 2) = DELIM

\* the items of s followed by those of t that are not among them, each once
RECURSIVE UnionInOrder(_, _)
UnionInOrder(s, t) ==
    IF Len(t) = 0 THEN s
    ELSE UnionInOrder(IF Head(t) \in Range(s) THEN s ELSE Append(s, Head(t)), Tail(t))

\* the union of get(D) over the declared keys D, in toc() order, that are K
\* or a descendant of K
RECURSIVE SubtreeUnion(_, _, _, _)
SubtreeUnion(dct, K, i, acc) ==
    IF i > Len(dct) THEN acc
    ELSE IF IsSelfOrDescendant(toc(dct)[i], K)
         THEN SubtreeUnion(dct, K, i + 1,
                           UnionInOrder(acc, get(dct, toc(dct)[i], FALSE, FALSE).items))
         ELSE SubtreeUnion(dct, K, i + 1, acc)

\* C1: for a declared key K, get(K, mlvl=True) is the ordered, deduplicated
\* union of get(D) over the declared keys D, in toc() order, that are K or a
\* descendant of K at a "::" boundary; no item held only by a key that is
\* neither is in it.  (Stated for the declared keys written in canonical
\* form; a declared key written with a short code is the case of C4.)
C1_MultilevelIsSubtreeUnion ==
    (/\ call.op = "get"
     /\ call.mlvl
     /\ call.key \in DeclaredKeys
     /\ canonicalize(call.key) = call.key)
    => /\ ret.exc = "none"
       /\ ret.items = SubtreeUnion(d, call.key, 1, <<>>)

\* C2: _check_key(R) returns the canonical form C of R exactly when C is a
\* declared key or a prefix, ending at a "::" boundary, of a declared key;
\* for every other R it raises the error that lists all declared keys.
C2_CheckKeyAtSegmentBoundary ==
    call.op = "_check_key" =>
        LET C == canonicalize(call.key)
        IN  IF \/ C \in DeclaredKeys
               \/ \E K \in DeclaredKeys : K # C /\ IsSelfOrDescendant(K, C)
            THEN ret.exc = "none" /\ ret.key = C
            ELSE /\ ret.exc = "KeyError"
                 /\ ret.listed
                 /\ ret.errkeys = toc(d)

\* C3: add succeeds only when the canonical form of every path of the
\* location is a declared key; otherwise it fails, at the first path that is
\* not, with the error that names that path and lists all declared keys.
C3_AddFailsWithKeyList ==
    call.op = "add" =>
        LET loc == call.item.location
            bad == {i \in 1..Len(loc) : canonicalize(loc[i]) \notin DeclaredKeys}
        IN  IF bad = {} THEN ret.exc = "none"
            ELSE LET i == CHOOSE x \in bad : \A y \in bad : x <= y
                 IN  /\ ret.exc = "KeyError"
                     /\ ret.errkey = canonicalize(loc[i])
                     /\ ret.listed
                     /\ ret.errkeys = toc(d)

\* C4: with the taxonomy {"aug": {"crop": [], "flip": []}}, adding one item
\* tagged "aug::crop" succeeds, and then get("aug", mlvl=True) and
\* get("aug::crop") return exactly that item and get("aug::flip") the empty
\* tuple.
C4_RoundTripScenario ==
    (/\ cats_json = RoundTrip
     /\ call.op = "add"
     /\ n = 1
     /\ call.item.location = <<join(<<s_aug, s_crop>>)>>)
    => /\ ret.exc = "none"
       /\ get(d, s_aug, TRUE, FALSE) = [Returned EXCEPT !.items = <<call.item>>]
       /\ get(d, join(<<s_aug, s_crop>>), FALSE, FALSE)
             = [Returned EXCEPT !.items = <<call.item>>]
       /\ get(d, join(<<s_aug, s_flip>>), FALSE, FALSE) = Returned

\* C5: the heading line of each declared key K (of at most 4 delimiters)
\* uses the heading kind at index count of "::" in K of section_per_depth.
C5_HeadingKindIsDelimiterCount ==
    call.op = "fill_tex_body" =>
        /\ ret.exc = "none"
        /\ \A i \in 1..Len(ret.headings) :
              count(ret.headings[i].key) <= 4 =>
                 ret.headings[i].sec = section_per_depth[count(ret.headings[i].key) + 1]

\* C6: the keys whose heading lines appear in the output of fill_tex_body,
\* in the order of the lines, are toc(): one heading per declared key, in
\* the declared order.
C6_HeadingsAreToc ==
    call.op = "fill_tex_body" =>
        [i \in 1..Len(ret.headings) |-> ret.headings[i].key] = toc(d)

\* C7: in the output of fill_tex_body no \begin{enumerate} line is
\* immediately followed by an \end{enumerate} line.
C7_NoEmptyList ==
    call.op = "fill_tex_body" =>
        \A i \in 1..(Len(ret.lines) - 1) :
            ~ (ret.lines[i].kind = "begin" /\ ret.lines[i + 1].kind = "end")

C9_KeysFixed ==
    /\ toc(d) = inner(cats_json, <<>>, TRUE, <<>>)
    /\ call.op = "toc" => ret.keys = inner(cats_json, <<>>, TRUE, <<>>)

\* toc() called after two entries were added, one of which was stored and
\* the other refused
C9_Witness ==
    /\ call.op = "toc"
    /\ n = 2
    /\ Cardinality(StoredIds(d)) = 1

\* C10: an add that fails leaves every bucket as it was.
C10_FailedAddChangesNothing ==
    (call.op = "add" /\ ret.exc # "none") => d = before

====
